---- MODULE Spec2Model ----
(***************************************************************************)
(* Workspace symbol index of vscode-scss: src/src/services/scanner.ts.     *)
(*                                                                         *)
(* A file is named by its basename, a sequence of character codes; the     *)
(* `.scss` suffix and the directory are carried through unchanged by       *)
(* path.parse and path.format, and files of equal basename lie in one      *)
(* directory.  A file on disk has the directories that lead to it from the *)
(* scanned root, a modification time, a flag telling whether the directory *)
(* walker reaches it, a fault (its read or its parse fails) and the import *)
(* records the parser finds in it.                                         *)
(*                                                                         *)
(* doScanner may be called while earlier calls are still running: every    *)
(* call has its own closure (stream, listOfPromises, promise, resolver     *)
(* state), and all calls share the cache, the settings object and the      *)
(* disk.  Files may be modified at any moment.                             *)
(***************************************************************************)
EXTENDS Integers, Sequences, FiniteSets, TLC

VARIABLES
    disk,            \* on-disk files: basename -> [dir, mtime, inRoot, fault, imports]
    cache,           \* ICache: key -> ISymbols
    settings,        \* ISettings: showErrors, scanImportedFiles,
                     \* scanImportedFilesDepth, scannerExclude
    calls,           \* the doScanner calls made so far: number -> the call's
                     \* closure (see NewCall)
    nextId,          \* identity of the next ISymbols object the parser creates
    extractedAt,     \* history: path -> entry.ctime of its latest successful extraction
    scans,           \* number of doScanner calls so far
    touches,         \* number of modifications of files so far
    alive,           \* the process has not been terminated
    walkFails        \* the tree holds a directory the walker cannot list

vars == <<disk, cache, settings, calls, nextId, extractedAt, scans, touches,
          alive, walkFails>>

(***************************************************************************)
(* Bounds of the model.                                                    *)
(***************************************************************************)
MaxScans == 2
MaxTouches == 1
MaxDepth == 3

(***************************************************************************)
(* Paths.                                                                  *)
(***************************************************************************)
\* The character code of `_`.
Underscore == 95

\* parsed.base.startsWith('_')
StartsWithUnderscore(base) == Len(base) > 0 /\ Head(base) = Underscore

\* Variant of StripPartial: every leading underscore is dropped, as
\* replace(/^_+/, '') would.
RECURSIVE StripPartialAll(_)
StripPartialAll(base) ==
    IF StartsWithUnderscore(base) THEN StripPartialAll(Tail(base)) ELSE base

\* parsed.base.replace(/^_/, ''): a regular expression without the g flag
\* replaces the first match only.
StripPartial(base) ==
    IF StartsWithUnderscore(base) THEN Tail(base) ELSE base

\* base: '_' + original.base
PartialOf(base) == <<Underscore>> \o base

(***************************************************************************)
(* Files and import records.                                               *)
(***************************************************************************)
Imp(target) == [filepath |-> target, dynamic |-> FALSE, css |-> FALSE]
Dyn(target) == [filepath |-> target, dynamic |-> TRUE, css |-> FALSE]
Css(target) == [filepath |-> target, dynamic |-> FALSE, css |-> TRUE]

\* A file below the directory dir (directory names, from the scanned root
\* down); inRoot: the file lies within settings.scannerDepth of the root.
FileIn(dir, mtime, inRoot, fault, imports) ==
    [dir |-> dir, mtime |-> mtime, inRoot |-> inRoot, fault |-> fault,
     imports |-> imports]

\* A file directly in the root directory.
File(mtime, inRoot, fault, imports) ==
    FileIn(<<>>, mtime, inRoot, fault, imports)

\* Basenames used by the workspaces below.
NmA == <<97>>
NmB == <<98>>
NmC == <<99>>
NmD == <<100>>
NmE == <<101>>
NmG == <<103>>
NmM == <<109>>
NmP == <<112>>
NmX == <<120>>
NmY == <<121>>
NmF(i) == <<102, 48 + i>>
NmH == <<104>>
NmJ == <<106>>
NmK == <<107>>

\* Directory names: v, s and not-v.
DirV == <<118>>
DirS == <<115>>
DirNotV == <<110, 111, 116, 45, 118>>

\* a.scss imports b; the partial _b.scss has no imports.
WsConcrete ==
    (NmA :> File(1, TRUE, "none", <<Imp(NmB)>>)) @@
    (PartialOf(NmB) :> File(1, TRUE, "none", <<>>))

\* a.scss is fine, b.scss cannot be read.
WsBestEffort ==
    (NmA :> File(1, TRUE, "none", <<>>)) @@
    (NmB :> File(1, TRUE, "read", <<>>))

\* c.scss and _c.scss side by side.
WsSiblings ==
    (NmC :> File(1, TRUE, "none", <<>>)) @@
    (PartialOf(NmC) :> File(2, TRUE, "none", <<>>))

\* p.scss imports x; x.scss and _y.scss lie outside the scan and import
\* each other.
WsCycle ==
    (NmP :> File(1, TRUE, "none", <<Imp(NmX)>>)) @@
    (NmX :> File(1, FALSE, "none", <<Imp(NmY)>>)) @@
    (PartialOf(NmY) :> File(1, FALSE, "none", <<Imp(NmX)>>))

\* a.scss has a dynamic import of d, a css import of e and a plain import of
\* g; d.scss and _e.scss exist, g.scss does not parse.
WsDynamic ==
    (NmA :> File(1, TRUE, "none", <<Dyn(NmD), Css(NmE), Imp(NmG)>>)) @@
    (NmD :> File(1, FALSE, "none", <<>>)) @@
    (PartialOf(NmE) :> File(1, FALSE, "none", <<>>)) @@
    (NmG :> File(1, FALSE, "parse", <<>>))

\* __m.scss: a basename with two leading underscores.
WsDouble ==
    (PartialOf(PartialOf(NmM)) :> File(1, TRUE, "none", <<>>))

\* f0 -> f1 -> ... -> f(MaxDepth+1); f0 is the only project file, and the
\* files of odd index are partials.
ChainFile(i) == IF i % 2 = 1 THEN PartialOf(NmF(i)) ELSE NmF(i)
ChainLast == MaxDepth + 1
WsChain ==
    [q \in {ChainFile(i) : i \in 0..ChainLast} |->
        LET i == CHOOSE j \in 0..ChainLast : ChainFile(j) = q
        IN  File(1, i = 0, "none",
                 IF i < ChainLast THEN <<Imp(NmF(i + 1))>> ELSE <<>>)]

\* v/h.scss, s/v/k.scss and not-v/j.scss.
WsVendor ==
    (NmH :> FileIn(<<DirV>>, 1, TRUE, "none", <<>>)) @@
    (NmK :> FileIn(<<DirS, DirV>>, 1, TRUE, "none", <<>>)) @@
    (NmJ :> FileIn(<<DirNotV>>, 1, TRUE, "none", <<>>))

Workspaces ==
    {WsConcrete, WsBestEffort, WsSiblings, WsCycle, WsDynamic, WsDouble, WsChain,
     WsVendor}

(***************************************************************************)
(* Exclusion patterns: reGlobBaseName, the expansion doScanner makes, the  *)
(* glob matcher and scannerFilter.  A pattern is a sequence of character   *)
(* codes; a path is the sequence of its segments.                          *)
(***************************************************************************)
\* The character codes of `/`, `*`, `.` and `-`.
Slash == 47
Star == 42
Dot == 46
Dash == 45

\* [\w\.-]: a letter, a digit, `_`, `.` or `-`.
IsNameChar(c) ==
    \/ c \in 48..57
    \/ c \in 65..90
    \/ c \in 97..122
    \/ c \in {Underscore, Dot, Dash}

\* reGlobBaseName.test(pattern), reGlobBaseName = /^\*\*\/([\w\.-]+)\/?$/
reGlobBaseName(pattern) ==
    /\ Len(pattern) >= 4
    /\ SubSeq(pattern, 1, 3) = <<Star, Star, Slash>>
    /\ LET rest == SubSeq(pattern, 4, Len(pattern))
           name == IF rest[Len(rest)] = Slash
                   THEN SubSeq(rest, 1, Len(rest) - 1) ELSE rest
       IN  /\ name # <<>>
           /\ \A i \in 1..Len(name) : IsNameChar(name[i])

\* The patterns pushed by the forEach: pattern + '/**' for every pattern of
\* the list that reGlobBaseName accepts, in order.
RECURSIVE Pushed(_)
Pushed(patterns) ==
    IF patterns = <<>> THEN <<>>
    ELSE (IF reGlobBaseName(Head(patterns))
          THEN <<Head(patterns) \o <<Slash, Star, Star>>>>
          ELSE <<>>) \o Pushed(Tail(patterns))

\* Variant of ExpandExclude: nothing is pushed.
ExpandExcludeNone(patterns) == patterns

\* excludePatterns after the forEach.  forEach visits the elements the array
\* had when it began, and the pushes go to the end of that same array.
ExpandExclude(patterns) == patterns \o Pushed(patterns)

\* The segments of a pattern: pattern.split('/').
RECURSIVE SplitAt(_, _)
SplitAt(chars, seg) ==
    IF chars = <<>> THEN <<seg>>
    ELSE IF Head(chars) = Slash THEN <<seg>> \o SplitAt(Tail(chars), <<>>)
    ELSE SplitAt(Tail(chars), Append(seg, Head(chars)))

Segments(pattern) == SplitAt(pattern, <<>>)

\* The glob matcher (micromatch) on the patterns used here: a segment `**`
\* matches any number of path segments, `*` matches one segment, any other
\* segment matches the segment equal to it.
RECURSIVE GlobMatch(_, _)
GlobMatch(pat, path) ==
    IF pat = <<>> THEN path = <<>>
    ELSE IF Head(pat) = <<Star, Star>>
         THEN \/ GlobMatch(Tail(pat), path)
              \/ path # <<>> /\ GlobMatch(pat, Tail(path))
    ELSE /\ path # <<>>
         /\ Head(pat) = <<Star>> \/ Head(pat) = Head(path)
         /\ GlobMatch(Tail(pat), Tail(path))

\* micromatch(stat.path, excludePatterns).length !== 0
MatchesAny(path, patterns) ==
    \E i \in 1..Len(patterns) : GlobMatch(Segments(patterns[i]), path)

\* stat.path of a file: basePath (path.resolve(root), here /r), the
\* directories below the root, and the file name with its .scss suffix.
BasePath == << <<>>, <<114>> >>
StatPath(d, p) == BasePath \o d[p].dir \o <<p \o <<Dot, 115, 99, 115, 115>>>>

\* Variant of scannerFilter: the exclusion patterns are not looked at.
scannerFilterNoExclude(path, excludePatterns) == TRUE

\* scannerFilter for a file entry whose name ends in .scss.
scannerFilter(path, excludePatterns) ==
    IF excludePatterns # <<>> /\ MatchesAny(path, excludePatterns)
    THEN FALSE
    ELSE TRUE

\* The exclusion lists a caller may configure: none; `**/v`; `**/w/` with
\* `**/v/**`.
PatBaseV == <<Star, Star, Slash, 118>>
PatBaseWSlash == <<Star, Star, Slash, 119, Slash>>
PatUnderV == <<Star, Star, Slash, 118, Slash, Star, Star>>
ExcludeLists == {<<>>, <<PatBaseV>>, <<PatBaseWSlash, PatUnderV>>}

(***************************************************************************)
(* Symbol cache (services/cache): get and set, last write wins per key.    *)
(***************************************************************************)
\* cache.get(key): a sequence holding the table, empty when there is none.
CacheGet(c, key) == IF key \in DOMAIN c THEN <<c[key]>> ELSE <<>>

\* cache.set(key, table)
CacheSet(c, key, table) == (key :> table) @@ c

(***************************************************************************)
(* makeEntryFile, the freshness test and the extractor.                    *)
(***************************************************************************)
\* makeEntryFile(filepath, ctime); dir is derived from filepath.
makeEntryFile(filepath, ctime) == [filepath |-> filepath, ctime |-> ctime]

\* cached && cached.ctime && cached.ctime.getTime() >= entry.ctime.getTime()
IsFresh(cached, entry) ==
    cached # <<>> /\ cached[1].ctime >= entry.ctime

\* readFile(entry.filepath) and parseDocument both succeed.
Extractable(d, entry) ==
    entry.filepath \in DOMAIN d /\ d[entry.filepath].fault = "none"

\* The ISymbols makeSymbolsForDocument builds: the document is the path with
\* the partial prefix dropped, the imports are those the parser finds in the
\* text, data stands for the declarations parsed from the text read (the file
\* and the version of its contents), ctime is the entry's.
makeSymbolsForDocument(d, entry, id) ==
    [document |-> StripPartial(entry.filepath),
     imports  |-> d[entry.filepath].imports,
     data     |-> [file |-> entry.filepath, ver |-> d[entry.filepath].mtime],
     ctime    |-> entry.ctime,
     id       |-> id]

(***************************************************************************)
(* The promise doScanner returns: the first settlement wins.               *)
(***************************************************************************)
Pending == [state |-> "pending", value |-> <<>>]

resolve(p, value) ==
    IF p.state = "pending" THEN [state |-> "resolved", value |-> value] ELSE p

reject(p) ==
    IF p.state = "pending" THEN [state |-> "rejected", value |-> <<>>] ELSE p

(***************************************************************************)
(* scannerImportedFiles: the candidates of one wave.                       *)
(***************************************************************************)
\* Variant of IsFollowed: the css flag is not looked at.
IsFollowedDynamicOnly(x) == ~x.dynamic

\* if (x.dynamic || x.css) return;
IsFollowed(x) == ~(x.dynamic \/ x.css)

\* Variant of IsParent: no import target is taken for a parent.
IsParentNever(x, symbolsList) == FALSE

\* symbolsList[i].document === x.filepath for some i
IsParent(x, symbolsList) ==
    \E i \in 1..Len(symbolsList) : symbolsList[i].document = x.filepath

RECURSIVE CandidatesOf(_, _)
CandidatesOf(imports, symbolsList) ==
    IF imports = <<>> THEN <<>>
    ELSE LET x == Head(imports)
         IN  (IF IsFollowed(x) /\ ~IsParent(x, symbolsList)
              THEN <<x.filepath, PartialOf(x.filepath)>>
              ELSE <<>>) \o CandidatesOf(Tail(imports), symbolsList)

RECURSIVE ImportedFiles(_, _)
ImportedFiles(list, symbolsList) ==
    IF list = <<>> THEN <<>>
    ELSE CandidatesOf(Head(list).imports, symbolsList)
            \o ImportedFiles(Tail(list), symbolsList)

\* Variant of DepthReached: the depth bound is not looked at.
DepthReachedNever(list, n, depth) == list = <<>>

\* list.length === 0 || nesting === settings.scanImportedFilesDepth
DepthReached(list, n, depth) == list = <<>> \/ n = depth

\* One item of a wave's Promise.all: stat pending, read pending, or settled
\* with a value (a sequence holding the table, empty for null).
StatItem(filepath) ==
    [filepath |-> filepath, state |-> "stat", ctime |-> 0, value |-> <<>>]

RECURSIVE Flatten(_)
Flatten(items) ==
    IF items = <<>> THEN <<>> ELSE Head(items).value \o Flatten(Tail(items))

(***************************************************************************)
(* Initial state: a workspace, the settings, an empty cache, no call yet.  *)
(***************************************************************************)
Settings ==
    [showErrors : BOOLEAN, scanImportedFiles : BOOLEAN,
     scanImportedFilesDepth : 0..MaxDepth, scannerExclude : ExcludeLists]

\* The settings a workspace is scanned with.  The depth bound is read by
\* the import resolver alone, so it is 0 when the resolver is off; the
\* resolver is on where a file has an import for it to look at; exclusion
\* patterns are configured over the workspace that has directories for them
\* to name, and only there.
SettingsOf(d) ==
    {s \in Settings :
        /\ ~s.scanImportedFiles => s.scanImportedFilesDepth = 0
        /\ (\A p \in DOMAIN d : d[p].imports = <<>>) => ~s.scanImportedFiles
        /\ (s.scannerExclude # <<>>) <=> (d = WsVendor)
        /\ d = WsConcrete =>
              s.scanImportedFiles /\ s.scanImportedFilesDepth \in {1, MaxDepth}
        /\ d = WsChain => ~s.showErrors
        /\ d = WsCycle =>
              s.scanImportedFiles /\ s.scanImportedFilesDepth = MaxDepth}

\* The workspaces in which the walker meets a directory it cannot list.
WalkFailsIn(d) == IF d \in {WsBestEffort, WsDynamic} THEN BOOLEAN ELSE {FALSE}

Init ==
    /\ disk \in Workspaces
    /\ settings \in SettingsOf(disk)
    /\ walkFails \in WalkFailsIn(disk)
    /\ cache = <<>>
    /\ calls = <<>>
    /\ nextId = 1
    /\ extractedAt = <<>>
    /\ scans = 0
    /\ touches = 0
    /\ alive = TRUE

(***************************************************************************)
(* The environment: a file is modified, at any time.                       *)
(***************************************************************************)
Touch(p) ==
    /\ touches < MaxTouches
    /\ p \in DOMAIN disk
    /\ disk' = [disk EXCEPT ![p].mtime = @ + 1]
    /\ touches' = touches + 1
    /\ UNCHANGED <<cache, settings, calls, nextId, extractedAt, scans, alive,
                   walkFails>>

(***************************************************************************)
(* doScanner: the call, and the handlers of the directory stream.          *)
(***************************************************************************)
\* The closure of a call that has just been made: the position of the call
\* (walking: the stream is open; ended: the end handler awaits
\* Promise.all(listOfPromises); importing: a wave is outstanding; imported:
\* import resolution has returned and the end handler has not resumed yet;
\* done: the end handler has returned), the root files its stream has not emitted
\* yet, listOfPromises, the promise returned, the end handler's
\* projectSymbols, the resolver's nesting and accum, the Promise.all of the
\* current wave, and as history whether the stream emitted 'error', the
\* entries makeSymbolsForDocument was called on, the paths statFile was
\* called on, and extractedAt when the call was made.
NewCall(emit, prev) ==
    [phase           |-> "walking",
     toEmit          |-> emit,
     listOfPromises  |-> <<>>,
     promise         |-> Pending,
     projectSymbols  |-> <<>>,
     nesting         |-> 0,
     accum           |-> <<>>,
     wave            |-> <<>>,
     streamErrored   |-> FALSE,
     invoked         |-> {},
     statted         |-> {},
     prevExtractedAt |-> prev]

\* A call may be made whatever earlier calls are doing; it shares the cache
\* and the settings object with them.
doScanner ==
    /\ alive
    /\ scans < MaxScans
    /\ scans' = scans + 1
    /\ settings' = [settings EXCEPT
          !.scannerExclude = ExpandExclude(settings.scannerExclude)]
    /\ calls' = (scans' :>
                    NewCall({p \in DOMAIN disk :
                                /\ disk[p].inRoot
                                /\ scannerFilter(StatPath(disk, p),
                                                 settings'.scannerExclude)},
                            extractedAt)) @@ calls
    /\ UNCHANGED <<disk, cache, nextId, extractedAt, touches, alive, walkFails>>

\* stream.on('file'): the cached table when it is not outdated, else the
\* promise of makeSymbolsForDocument.
OnFile(c, p) ==
    /\ alive
    /\ c \in DOMAIN calls
    /\ calls[c].phase = "walking"
    /\ p \in calls[c].toEmit
    /\ LET entry  == makeEntryFile(p, disk[p].mtime)
           cached == CacheGet(cache, entry.filepath)
       IN  calls' = [calls EXCEPT ![c] =
              IF IsFresh(cached, entry)
              THEN [@ EXCEPT
                      !.toEmit = @ \ {p},
                      !.listOfPromises = Append(@,
                          [entry |-> entry, state |-> "fulfilled",
                           value |-> cached])]
              ELSE [@ EXCEPT
                      !.toEmit = @ \ {p},
                      !.listOfPromises = Append(@,
                          [entry |-> entry, state |-> "pending",
                           value |-> <<>>]),
                      !.invoked = @ \cup {entry}]]
    /\ UNCHANGED <<disk, cache, settings, nextId, extractedAt, scans, touches,
                   alive, walkFails>>

\* Variant of OnError: the error is surfaced whatever showErrors says.
OnErrorAlwaysRejects(c) ==
    /\ alive
    /\ walkFails
    /\ c \in DOMAIN calls
    /\ calls[c].phase = "walking"
    /\ ~calls[c].streamErrored
    /\ calls' = [calls EXCEPT ![c].streamErrored = TRUE,
                              ![c].promise = reject(@)]
    /\ UNCHANGED <<disk, cache, settings, nextId, extractedAt, scans, touches,
                   alive, walkFails>>

\* stream.on('error')
OnError(c) ==
    /\ alive
    /\ walkFails
    /\ c \in DOMAIN calls
    /\ calls[c].phase = "walking"
    /\ ~calls[c].streamErrored
    /\ calls' = [calls EXCEPT
          ![c].streamErrored = TRUE,
          ![c].promise = IF settings.showErrors THEN reject(@) ELSE @]
    /\ UNCHANGED <<disk, cache, settings, nextId, extractedAt, scans, touches,
                   alive, walkFails>>

\* stream.on('end'): the handler starts and awaits Promise.all(listOfPromises).
\* After an 'error' the stream may end without having emitted every file.
OnEnd(c) ==
    /\ alive
    /\ c \in DOMAIN calls
    /\ calls[c].phase = "walking"
    /\ calls[c].toEmit = {} \/ calls[c].streamErrored
    /\ calls' = [calls EXCEPT ![c].phase = "ended"]
    /\ UNCHANGED <<disk, cache, settings, nextId, extractedAt, scans, touches,
                   alive, walkFails>>

\* The continuation of makeSymbolsForDocument for the i-th project file of
\* call c: the read has settled; on success the text read, which is the
\* file's contents at this moment, is parsed, stamped with the ctime the
\* 'file' event carried, and cached.  On failure the promise pushed to
\* listOfPromises rejects; until the end handler has passed the list to
\* Promise.all nothing handles that rejection, and the host decides whether
\* the process goes on or is terminated.
ReadProject(c, i) ==
    /\ alive
    /\ c \in DOMAIN calls
    /\ i \in 1..Len(calls[c].listOfPromises)
    /\ calls[c].listOfPromises[i].state = "pending"
    /\ LET entry == calls[c].listOfPromises[i].entry
           made  == makeSymbolsForDocument(disk, entry, nextId)
       IN  IF Extractable(disk, entry)
           THEN /\ cache' = CacheSet(cache, made.document, made)
                /\ calls' = [calls EXCEPT
                      ![c].listOfPromises[i].state = "fulfilled",
                      ![c].listOfPromises[i].value = <<made>>]
                /\ nextId' = nextId + 1
                /\ extractedAt' = (entry.filepath :> entry.ctime) @@ extractedAt
                /\ alive' = alive
           ELSE /\ calls' = [calls EXCEPT
                      ![c].listOfPromises[i].state = "rejected"]
                /\ alive' \in IF calls[c].phase = "walking"
                              THEN {TRUE, FALSE} ELSE {TRUE}
                /\ UNCHANGED <<cache, nextId, extractedAt>>
    /\ UNCHANGED <<disk, settings, scans, touches, walkFails>>

(***************************************************************************)
(* scannerImportedFiles.recurse(accum, list), entered with nesting = n:    *)
(* either it returns accum (the promise of scannerImportedFiles fulfils,   *)
(* and the end handler, awaiting it at line 190, resumes in a later turn), *)
(* or it issues the stats of a wave: statFile is called on every candidate *)
(* before recurse returns.                                                 *)
(* The value is the call's closure afterwards.                             *)
(***************************************************************************)
recurse(call, acc, list, n, symbolsList) ==
    LET importedFiles == ImportedFiles(list, symbolsList)
    IN  IF DepthReached(list, n, settings.scanImportedFilesDepth)
           \/ importedFiles = <<>>
        THEN [call EXCEPT
                !.accum = acc, !.nesting = n, !.wave = <<>>,
                !.phase = "imported"]
        ELSE [call EXCEPT
                !.accum = acc, !.nesting = n,
                !.wave = [i \in 1..Len(importedFiles) |->
                             StatItem(importedFiles[i])],
                !.statted = @ \cup {importedFiles[i] :
                                       i \in 1..Len(importedFiles)},
                !.phase = "importing"]

\* Variant of EndHandler: resolve sits inside the try block, so the catch
\* path leaves the promise alone unless showErrors is set.
EndHandlerResolveInTry(c) ==
    /\ alive
    /\ c \in DOMAIN calls
    /\ calls[c].phase = "ended"
    /\ LET call == calls[c]
           lp   == call.listOfPromises
       IN  IF \E i \in 1..Len(lp) : lp[i].state = "rejected"
           THEN calls' = [calls EXCEPT ![c] = [call EXCEPT
                    !.promise = IF settings.showErrors THEN reject(@) ELSE @,
                    !.phase = "done"]]
           ELSE /\ \A i \in 1..Len(lp) : lp[i].state = "fulfilled"
                /\ LET ps == Flatten(lp)
                   IN  calls' = [calls EXCEPT ![c] =
                          IF settings.scanImportedFiles
                          THEN recurse([call EXCEPT !.projectSymbols = ps],
                                       <<>>, ps, 0, ps)
                          ELSE [call EXCEPT
                                  !.projectSymbols = ps,
                                  !.promise = resolve(@, ps \o <<>>),
                                  !.phase = "done"]]
    /\ UNCHANGED <<disk, cache, settings, nextId, extractedAt, scans, touches,
                   alive, walkFails>>

\* The end handler after `await Promise.all(listOfPromises)`: Promise.all
\* rejects as soon as one promise has rejected and fulfils when all have.
EndHandler(c) ==
    /\ alive
    /\ c \in DOMAIN calls
    /\ calls[c].phase = "ended"
    /\ LET call == calls[c]
           lp   == call.listOfPromises
       IN  IF \E i \in 1..Len(lp) : lp[i].state = "rejected"
           THEN \* catch (err) { if (settings.showErrors) reject(err) }, then
                \* resolve(projectSymbols.concat(importedSymbols))
                calls' = [calls EXCEPT ![c] = [call EXCEPT
                    !.promise = resolve(IF settings.showErrors
                                        THEN reject(@) ELSE @,
                                        call.projectSymbols \o <<>>),
                    !.phase = "done"]]
           ELSE /\ \A i \in 1..Len(lp) : lp[i].state = "fulfilled"
                /\ LET ps == Flatten(lp)
                   IN  calls' = [calls EXCEPT ![c] =
                          IF settings.scanImportedFiles
                          THEN recurse([call EXCEPT !.projectSymbols = ps],
                                       <<>>, ps, 0, ps)
                          ELSE [call EXCEPT
                                  !.projectSymbols = ps,
                                  !.promise = resolve(@, ps \o <<>>),
                                  !.phase = "done"]]
    /\ UNCHANGED <<disk, cache, settings, nextId, extractedAt, scans, touches,
                   alive, walkFails>>

\* The end handler resumes after `await scannerImportedFiles(...)` and
\* resolves the promise with the project tables followed by the imported
\* ones.  Callbacks of other calls may have run since recurse returned.
EndResume(c) ==
    /\ alive
    /\ c \in DOMAIN calls
    /\ calls[c].phase = "imported"
    /\ calls' = [calls EXCEPT
          ![c].promise = resolve(@, calls[c].projectSymbols \o calls[c].accum),
          ![c].phase = "done"]
    /\ UNCHANGED <<disk, cache, settings, nextId, extractedAt, scans, touches,
                   alive, walkFails>>

\* statFile(filepath) of the i-th candidate has settled: a failure gives
\* null; else the cached table when it is not outdated, else the extractor
\* is called.
StatDone(c, i) ==
    /\ alive
    /\ c \in DOMAIN calls
    /\ calls[c].phase = "importing"
    /\ i \in 1..Len(calls[c].wave)
    /\ calls[c].wave[i].state = "stat"
    /\ LET f == calls[c].wave[i].filepath
       IN  IF f \notin DOMAIN disk
           THEN calls' = [calls EXCEPT
                   ![c].wave[i].state = "done"]
           ELSE LET entry  == makeEntryFile(f, disk[f].mtime)
                    cached == CacheGet(cache, f)
                IN  IF IsFresh(cached, entry)
                    THEN calls' = [calls EXCEPT
                            ![c].wave[i].state = "done",
                            ![c].wave[i].value = cached]
                    ELSE calls' = [calls EXCEPT
                            ![c].wave[i].state = "read",
                            ![c].wave[i].ctime = entry.ctime,
                            ![c].invoked = @ \cup {entry}]
    /\ UNCHANGED <<disk, cache, settings, nextId, extractedAt, scans, touches,
                   alive, walkFails>>

\* Variant of ReadImport: the failure of a candidate is not caught, so the
\* resolver rejects and the end handler's catch takes over.
ReadImportUncaught(c, i) ==
    /\ alive
    /\ c \in DOMAIN calls
    /\ calls[c].phase = "importing"
    /\ i \in 1..Len(calls[c].wave)
    /\ calls[c].wave[i].state = "read"
    /\ LET entry == makeEntryFile(calls[c].wave[i].filepath,
                                  calls[c].wave[i].ctime)
           made  == makeSymbolsForDocument(disk, entry, nextId)
       IN  IF Extractable(disk, entry)
           THEN /\ cache' = CacheSet(cache, made.document, made)
                /\ calls' = [calls EXCEPT
                      ![c].wave[i].state = "done",
                      ![c].wave[i].value = <<made>>]
                /\ nextId' = nextId + 1
                /\ extractedAt' = (entry.filepath :> entry.ctime) @@ extractedAt
           ELSE /\ calls' = [calls EXCEPT
                      ![c].wave = <<>>,
                      ![c].phase = "done",
                      ![c].promise = resolve(IF settings.showErrors
                                             THEN reject(@) ELSE @,
                                             calls[c].projectSymbols \o <<>>)]
                /\ UNCHANGED <<cache, nextId, extractedAt>>
    /\ UNCHANGED <<disk, settings, scans, touches, alive, walkFails>>

\* The continuation of makeSymbolsForDocument for the i-th candidate; a
\* failure is caught and gives null.
ReadImport(c, i) ==
    /\ alive
    /\ c \in DOMAIN calls
    /\ calls[c].phase = "importing"
    /\ i \in 1..Len(calls[c].wave)
    /\ calls[c].wave[i].state = "read"
    /\ LET entry == makeEntryFile(calls[c].wave[i].filepath,
                                  calls[c].wave[i].ctime)
           made  == makeSymbolsForDocument(disk, entry, nextId)
       IN  IF Extractable(disk, entry)
           THEN /\ cache' = CacheSet(cache, made.document, made)
                /\ calls' = [calls EXCEPT
                      ![c].wave[i].state = "done",
                      ![c].wave[i].value = <<made>>]
                /\ nextId' = nextId + 1
                /\ extractedAt' = (entry.filepath :> entry.ctime) @@ extractedAt
           ELSE /\ calls' = [calls EXCEPT ![c].wave[i].state = "done"]
                /\ UNCHANGED <<cache, nextId, extractedAt>>
    /\ UNCHANGED <<disk, settings, scans, touches, alive, walkFails>>

\* Variant of WaveJoin: the continuation runs once the first candidate has
\* settled.
WaveJoinEarly(c) ==
    /\ alive
    /\ c \in DOMAIN calls
    /\ calls[c].phase = "importing"
    /\ \E i \in 1..Len(calls[c].wave) : calls[c].wave[i].state = "done"
    /\ LET resultList == Flatten(calls[c].wave)
       IN  calls' = [calls EXCEPT ![c] =
              recurse(@, @.accum \o resultList, resultList, @.nesting + 1,
                      @.projectSymbols)]
    /\ UNCHANGED <<disk, cache, settings, nextId, extractedAt, scans, touches,
                   alive, walkFails>>

\* The wave's Promise.all has fulfilled: filter the nulls, nesting++, and
\* recurse(accum.concat(resultList), resultList).
WaveJoin(c) ==
    /\ alive
    /\ c \in DOMAIN calls
    /\ calls[c].phase = "importing"
    /\ \A i \in 1..Len(calls[c].wave) : calls[c].wave[i].state = "done"
    /\ LET resultList == Flatten(calls[c].wave)
       IN  calls' = [calls EXCEPT ![c] =
              recurse(@, @.accum \o resultList, resultList, @.nesting + 1,
                      @.projectSymbols)]
    /\ UNCHANGED <<disk, cache, settings, nextId, extractedAt, scans, touches,
                   alive, walkFails>>

Next ==
    \/ \E p \in DOMAIN disk : Touch(p)
    \/ doScanner
    \/ \E c \in DOMAIN calls : \E p \in calls[c].toEmit : OnFile(c, p)
    \/ \E c \in DOMAIN calls : OnError(c)
    \/ \E c \in DOMAIN calls : OnEnd(c)
    \/ \E c \in DOMAIN calls :
          \E i \in 1..Len(calls[c].listOfPromises) : ReadProject(c, i)
    \/ \E c \in DOMAIN calls : EndHandler(c)
    \/ \E c \in DOMAIN calls : \E i \in 1..Len(calls[c].wave) : StatDone(c, i)
    \/ \E c \in DOMAIN calls : \E i \in 1..Len(calls[c].wave) : ReadImport(c, i)
    \/ \E c \in DOMAIN calls : WaveJoin(c)
    \/ \E c \in DOMAIN calls : EndResume(c)

Spec == Init /\ [][Next]_vars

\* A step of the program itself: a stream event, the settling of a read or
\* of a stat, or a continuation.
Progress ==
    \E c \in DOMAIN calls :
        \/ \E p \in calls[c].toEmit : OnFile(c, p)
        \/ OnEnd(c)
        \/ \E i \in 1..Len(calls[c].listOfPromises) : ReadProject(c, i)
        \/ EndHandler(c)
        \/ \E i \in 1..Len(calls[c].wave) : StatDone(c, i) \/ ReadImport(c, i)
        \/ WaveJoin(c)
        \/ EndResume(c)

\* Every stream goes on emitting and ends; every read and stat settles; the
\* continuations that have become runnable (the end handler after its
\* Promise.all, the wave's .then) are run by the event loop: as long as one
\* of these steps is possible, one is taken.  Every call takes finitely many
\* steps, so each of them is taken in the end.  Nothing obliges the
\* environment to call doScanner, to modify a file or to make a stream fail.
Fairness == WF_vars(Progress)

FairSpec == Spec /\ Fairness

(***************************************************************************)
(* Properties.  A claim about a call is stated for every call made so far. *)
(***************************************************************************)
\* The files the directory walker emits, and among them those that read and
\* parse and those whose read fails.
RootFiles == {p \in DOMAIN disk : disk[p].inRoot}
RootReadable == {p \in RootFiles : disk[p].fault = "none"}
RootUnreadable == {p \in RootFiles : disk[p].fault = "read"}

\* The end handler of the call has returned and no read of the call is
\* outstanding.
CallDone(call) ==
    /\ call.phase = "done"
    /\ \A i \in 1..Len(call.listOfPromises) :
          call.listOfPromises[i].state # "pending"

\* C1 (best-effort scan): with showErrors off, over a root holding one file
\* that reads and parses and one file whose read fails, the promise resolves
\* with exactly the table of the readable file.
C1_BestEffortScan ==
    \A c \in DOMAIN calls :
        ( /\ ~settings.showErrors
          /\ Cardinality(RootReadable) = 1
          /\ Cardinality(RootUnreadable) = 1
          /\ RootFiles = RootReadable \cup RootUnreadable
          /\ ~calls[c].streamErrored
          /\ CallDone(calls[c]) )
        => /\ calls[c].promise.state = "resolved"
           /\ Len(calls[c].promise.value) = 1
           /\ calls[c].promise.value[1].data.file \in RootReadable

\* C2 (freshness idempotence): a file that had been extracted when a call
\* was made, and whose modification time as the call finds it is the one it
\* was extracted with, is not handed to the extractor by that call.
C2_FreshnessIdempotence ==
    \A c \in DOMAIN calls :
        \A e \in calls[c].invoked :
            ~ ( /\ e.filepath \in DOMAIN calls[c].prevExtractedAt
                /\ calls[c].prevExtractedAt[e.filepath] = e.ctime )

\* C3 (freshness invalidation): when a call reaches a file that had been
\* extracted before the call was made, by a 'file' event or by the stat of
\* an import candidate, and finds its modification time strictly greater
\* than at its latest extraction, it hands the file to the extractor; and
\* when that extraction completes, the cache entry of the file's canonical
\* path is the table newly made from it, stamped with the time found.
C3_FreshnessInvalidation ==
    [][\A c \in DOMAIN calls :
          LET a == calls[c]
              b == calls'[c]
          IN  /\ Len(b.listOfPromises) > Len(a.listOfPromises) =>
                    LET n == b.listOfPromises[Len(b.listOfPromises)]
                        p == n.entry.filepath
                    IN  (p \in DOMAIN a.prevExtractedAt
                            /\ n.entry.ctime > extractedAt[p])
                        => n.state = "pending"
              /\ (a.phase = "importing" /\ b.phase = "importing"
                     /\ b.nesting = a.nesting) =>
                    \A i \in 1..Len(a.wave) :
                        LET f == a.wave[i].filepath
                        IN  ( /\ a.wave[i].state = "stat"
                              /\ b.wave[i].state # "stat"
                              /\ f \in DOMAIN disk
                              /\ f \in DOMAIN a.prevExtractedAt
                              /\ disk[f].mtime > extractedAt[f] )
                            => b.wave[i].state = "read"
              /\ \A i \in 1..Len(a.listOfPromises) :
                    ( /\ a.listOfPromises[i].state = "pending"
                      /\ b.listOfPromises[i].state = "fulfilled" )
                    => LET e == a.listOfPromises[i].entry
                           k == StripPartial(e.filepath)
                       IN  /\ k \in DOMAIN cache'
                           /\ cache'[k].document = k
                           /\ cache'[k].data.file = e.filepath
                           /\ cache'[k].ctime = e.ctime]_vars

\* The number of tables of a sequence that were parsed from file p.
RECURSIVE TimesReturned(_, _)
TimesReturned(tables, p) ==
    IF tables = <<>> THEN 0
    ELSE (IF Head(tables).data.file = p THEN 1 ELSE 0)
            + TimesReturned(Tail(tables), p)

\* p imports q: some import record of p that is followed names q, plainly or
\* as the partial it is stored as.
ImportsFile(p, q) ==
    \E i \in 1..Len(disk[p].imports) :
        /\ ~disk[p].imports[i].dynamic
        /\ ~disk[p].imports[i].css
        /\ q \in {disk[p].imports[i].filepath,
                  <<Underscore>> \o disk[p].imports[i].filepath}

\* C4 (cycle safety): two files that import each other, neither being a
\* project file, are each returned at most once by import resolution,
\* whatever the depth bound.
C4_CycleSafety ==
    \A c \in DOMAIN calls :
        \A p, q \in DOMAIN disk \ RootFiles :
            (p # q /\ ImportsFile(p, q) /\ ImportsFile(q, p))
            => TimesReturned(calls[c].accum, p) <= 1

\* The workspace is the import chain f0 -> f1 -> ... -> f(MaxDepth+1).
IsChain == DOMAIN disk = {ChainFile(i) : i \in 0..ChainLast}

\* C5 (import depth bound): import resolution runs at most
\* scanImportedFilesDepth waves; over the chain, whose only project file is
\* f0, every import-resolved table is that of one of f1..fD, nothing beyond
\* fD is stat-ed, cached or returned, and with a bound of 0 nothing is
\* resolved at all.
C5_ImportDepthBound ==
    LET D == settings.scanImportedFilesDepth
    IN  /\ \A c \in DOMAIN calls :
              LET call == calls[c]
              IN  /\ call.nesting <= D
                  /\ call.phase = "importing" => call.nesting < D
                  /\ D = 0 => call.accum = <<>> /\ call.statted = {}
                  /\ IsChain =>
                        /\ \A i \in 1..Len(call.accum) :
                              \E k \in 1..D :
                                  call.accum[i].data.file = ChainFile(k)
                        /\ \A i \in 1..Len(call.promise.value) :
                              \E k \in 0..D :
                                  call.promise.value[i].data.file = ChainFile(k)
                        /\ \A k \in (D + 1)..ChainLast :
                              ChainFile(k) \notin call.statted
        /\ IsChain =>
              \A key \in DOMAIN cache :
                  \E k \in 0..D : cache[key].data.file = ChainFile(k)

\* Witness of C5: over the chain a call with a bound D >= 1 has resolved with
\* f0 and the D tables of f1..fD.
C5_Witness ==
    \E c \in DOMAIN calls :
        /\ IsChain
        /\ CallDone(calls[c])
        /\ settings.scanImportedFilesDepth >= 1
        /\ calls[c].promise.state = "resolved"
        /\ Len(calls[c].accum) = settings.scanImportedFilesDepth
        /\ Len(calls[c].promise.value) = settings.scanImportedFilesDepth + 1

\* q is the target, or the partial sibling of the target, of an import record
\* of table t that is neither dynamic nor css.
NamedByStaticImport(t, q) ==
    \E i \in 1..Len(t.imports) :
        /\ ~t.imports[i].dynamic
        /\ ~t.imports[i].css
        /\ q \in {t.imports[i].filepath, <<Underscore>> \o t.imports[i].filepath}

\* The tables a call knows: its project tables and those of its earlier
\* waves.
Known(call) == call.projectSymbols \o call.accum

\* The paths a call has handed to the extractor.
InvokedPaths(call) == {e.filepath : e \in call.invoked}

\* C6 (dynamic/css import exclusion): every path that is stat-ed, extracted
\* as an import candidate or returned by import resolution is named by an
\* import record of a known table that is neither dynamic nor css, and every
\* cached table comes from a project file or from a file so named by a file
\* on disk; a target that only dynamic or css records name is never touched.
C6_DynamicCssExclusion ==
    /\ \A c \in DOMAIN calls :
          LET call == calls[c]
              K    == Known(call)
          IN  /\ \A q \in call.statted \cup (InvokedPaths(call) \ RootFiles) :
                    \E i \in 1..Len(K) : NamedByStaticImport(K[i], q)
              /\ \A j \in 1..Len(call.accum) :
                    \E i \in 1..Len(K) :
                        NamedByStaticImport(K[i], call.accum[j].data.file)
    /\ \A key \in DOMAIN cache :
          \/ cache[key].data.file \in RootFiles
          \/ \E p \in DOMAIN disk : ImportsFile(p, cache[key].data.file)

\* Witness of C6: a call has run a wave over a project table holding a
\* dynamic or css import whose target (or its partial sibling) exists on
\* disk, and that file was not stat-ed.
C6_Witness ==
    \E c \in DOMAIN calls :
        /\ CallDone(calls[c])
        /\ calls[c].statted # {}
        /\ \E i \in 1..Len(calls[c].projectSymbols) :
              \E j \in 1..Len(calls[c].projectSymbols[i].imports) :
                  LET x == calls[c].projectSymbols[i].imports[j]
                  IN  /\ x.dynamic \/ x.css
                      /\ \E q \in {x.filepath, <<Underscore>> \o x.filepath} :
                            q \in DOMAIN disk /\ q \notin calls[c].statted

\* The tables the extractor has produced: those in the cache and those the
\* calls hold.
RECURSIVE Range(_)
Range(seq) == IF seq = <<>> THEN {} ELSE {Head(seq)} \cup Range(Tail(seq))
Produced ==
    {cache[k] : k \in DOMAIN cache} \cup
    UNION {Range(Flatten(calls[c].listOfPromises))
              \cup Range(Flatten(calls[c].wave))
              \cup Range(calls[c].promise.value) : c \in DOMAIN calls}

\* C7 as stated (partial-name canonicalization, every basename): no key the
\* extractor writes to the cache, and no document it reports, has a basename
\* starting with `_`.
C7_NoLeadingUnderscore ==
    /\ \A k \in DOMAIN cache : k[1] # Underscore
    /\ \A t \in Produced : t.document[1] # Underscore

\* C7 as amended: the extractor stores a table under the document it reports,
\* and that document is the file's basename with exactly its first leading
\* underscore removed (unchanged when there is none); so the document of a
\* file with a single leading underscore has none, and that of `__m` is `_m`.
C7_OneUnderscoreDropped ==
    /\ \A k \in DOMAIN cache : cache[k].document = k
    /\ \A t \in Produced :
          LET f == t.data.file
          IN  /\ IF f[1] = Underscore
                 THEN f = <<Underscore>> \o t.document
                 ELSE f = t.document
              /\ (Len(f) >= 2 /\ f[1] = Underscore /\ f[2] # Underscore)
                    => t.document[1] # Underscore

\* Witness of C7: the cache holds the table of a file whose basename starts
\* with two underscores, and a call has returned it.
C7_Witness ==
    \E c \in DOMAIN calls :
        /\ CallDone(calls[c])
        /\ \E i \in 1..Len(calls[c].promise.value) :
              LET t == calls[c].promise.value[i]
              IN  /\ Len(t.data.file) >= 3
                  /\ t.data.file[1] = Underscore
                  /\ t.data.file[2] = Underscore
                  /\ t.document \in DOMAIN cache
                  /\ cache[t.document] = t

\* C8 (cache ctime monotonicity): under every cache key the ctime of the
\* entry never decreases, and an entry is replaced by another table only when
\* the new table's ctime (the modification time of the file extracted) is
\* strictly greater.
C8_CtimeMonotone ==
    [][\A k \in DOMAIN cache :
          /\ k \in DOMAIN cache'
          /\ cache'[k].ctime >= cache[k].ctime
          /\ cache'[k].id # cache[k].id => cache'[k].ctime > cache[k].ctime]_vars

\* Some project file's read or parse has failed.
ProjectFailure(call) ==
    \E i \in 1..Len(call.listOfPromises) :
        call.listOfPromises[i].state = "rejected"

\* C9 (strict versus lenient error surfacing): the promise is rejected only
\* when showErrors is set; with showErrors set it is rejected from the 'error'
\* event on, and once the end handler has met the failure of a project file,
\* and stays so when the end handler has returned; a call in which a project
\* file failed is never resolved under showErrors; with showErrors off a
\* call whose end handler has returned is resolved.
C9_StrictVersusLenient ==
    \A c \in DOMAIN calls :
        LET call == calls[c]
        IN  /\ call.promise.state = "rejected" => settings.showErrors
            /\ (settings.showErrors /\ call.streamErrored)
                  => call.promise.state = "rejected"
            /\ (settings.showErrors /\ call.phase = "done"
                  /\ ProjectFailure(call))
                  => call.promise.state = "rejected"
            /\ (settings.showErrors /\ ProjectFailure(call))
                  => call.promise.state # "resolved"
            /\ (~settings.showErrors /\ call.phase = "done")
                  => call.promise.state = "resolved"

\* Witness of C9: with showErrors set the stream emitted 'error', every
\* project file was then extracted and the end handler has returned, and the
\* promise is still rejected.
C9_Witness ==
    \E c \in DOMAIN calls :
        /\ settings.showErrors
        /\ calls[c].streamErrored
        /\ CallDone(calls[c])
        /\ calls[c].listOfPromises # <<>>
        /\ ~ProjectFailure(calls[c])
        /\ calls[c].promise.state = "rejected"

\* C10 (result shape): a resolved promise holds one table per 'file' event,
\* in event order, followed by the import-resolved tables in wave order; with
\* scanImportedFiles off the resolver does not run and the result is the
\* project tables alone.
C10_ResultShape ==
    \A c \in DOMAIN calls :
        LET call == calls[c]
        IN  call.promise.state = "resolved" =>
               LET n == Len(call.listOfPromises)
               IN  /\ Len(call.promise.value) = n + Len(call.accum)
                   /\ \A i \in 1..n :
                         call.listOfPromises[i].entry.filepath \in
                             {call.promise.value[i].document,
                              <<Underscore>> \o call.promise.value[i].document}
                   /\ \A i \in 1..Len(call.accum) :
                         call.promise.value[n + i] = call.accum[i]
                   /\ ~settings.scanImportedFiles =>
                         call.accum = <<>> /\ call.statted = {}

\* The workspace is a.scss (importing b) and _b.scss.
IsConcrete == DOMAIN disk = {NmA, <<Underscore>> \o NmB}

\* C11 (concrete scenario): over a.scss (one static import of b) and _b.scss,
\* with scanImportedFiles on and a depth bound >= 1, every call whose stream
\* ends without an 'error' resolves with exactly two tables, of documents
\* a.scss and b.scss; the import of b is not followed, b.scss being the
\* document of a project table.
C11_ConcreteScenario ==
    \A c \in DOMAIN calls :
        ( /\ IsConcrete
          /\ settings.scanImportedFiles
          /\ settings.scanImportedFilesDepth >= 1
          /\ ~calls[c].streamErrored
          /\ calls[c].phase = "done" )
        => /\ calls[c].promise.state = "resolved"
           /\ Len(calls[c].promise.value) = 2
           /\ {calls[c].promise.value[i].document : i \in 1..2} = {NmA, NmB}
           /\ calls[c].accum = <<>>
           /\ calls[c].statted = {}

\* Witness of C11: two calls over that workspace, sharing the cache, have
\* both resolved; the second was made before any extraction of the first
\* had completed.
C11_Witness ==
    /\ IsConcrete
    /\ settings.scanImportedFiles
    /\ settings.scanImportedFilesDepth >= 1
    /\ DOMAIN calls = {1, 2}
    /\ \A c \in DOMAIN calls :
          /\ CallDone(calls[c])
          /\ calls[c].promise.state = "resolved"
    /\ calls[2].prevExtractedAt = <<>>

\* A pattern `**/<name>`, the name made of word characters, dots and dashes.
IsBaseNamePattern(pattern) ==
    /\ Len(pattern) >= 4
    /\ pattern[1] = Star /\ pattern[2] = Star /\ pattern[3] = Slash
    /\ \A i \in 4..Len(pattern) : IsNameChar(pattern[i])

\* A pattern `**/<name>/`: the same followed by one `/`.
IsBaseNameSlashPattern(pattern) ==
    /\ Len(pattern) >= 5
    /\ pattern[Len(pattern)] = Slash
    /\ IsBaseNamePattern(SubSeq(pattern, 1, Len(pattern) - 1))

\* The name of a pattern `**/<name>`.
BaseNameOf(pattern) == SubSeq(pattern, 4, Len(pattern))

\* A step that begins a doScanner call.
CallBegins == scans' = scans + 1

\* What the filter makes of the files, for a call that begins with the list
\* cfg configured: a file below a directory named by a pattern `**/<name>`
\* of cfg is not emitted, and a file none of whose directories is a segment
\* of a pattern of cfg is emitted.
FilterAgrees(cfg) ==
    \A p \in RootFiles :
        /\ (\E i \in 1..Len(cfg) :
               /\ IsBaseNamePattern(cfg[i])
               /\ \E j \in 1..Len(disk[p].dir) :
                     disk[p].dir[j] = BaseNameOf(cfg[i]))
              => p \notin calls'[scans'].toEmit
        /\ (\A i \in 1..Len(cfg) : \A j \in 1..Len(disk[p].dir) :
               \A k \in 1..Len(Segments(cfg[i])) :
                   Segments(cfg[i])[k] # disk[p].dir[j])
              => p \in calls'[scans'].toEmit

\* C12 as stated (exclusion expansion): the list a call filters with holds,
\* for every configured pattern `**/<name>`, that pattern and
\* `**/<name>/**`, and every pattern of another shape as given and nothing
\* for it; files below a directory so named are rejected, files below
\* directories of other names are not.
C12_ExpansionAsStated ==
    [][CallBegins =>
          LET cfg  == settings.scannerExclude
              eff  == settings'.scannerExclude
              base == {i \in 1..Len(cfg) : IsBaseNamePattern(cfg[i])}
          IN  /\ Len(eff) = Len(cfg) + Cardinality(base)
              /\ Range(eff) = Range(cfg) \cup
                    {cfg[i] \o <<Slash, Star, Star>> : i \in base}
              /\ FilterAgrees(cfg)]_vars

\* C12 as amended: the patterns expanded are those of the shape `**/<name>`
\* or `**/<name>/`; each stays in the list and adds itself followed by `/**`
\* (`**/<name>/**`, and `**/<name>//**` for the second shape); patterns of
\* other shapes are used as given; the filter behaves as stated.
C12_ExclusionExpansion ==
    [][CallBegins =>
          LET cfg  == settings.scannerExclude
              eff  == settings'.scannerExclude
              base == {i \in 1..Len(cfg) :
                          \/ IsBaseNamePattern(cfg[i])
                          \/ IsBaseNameSlashPattern(cfg[i])}
          IN  /\ Len(eff) = Len(cfg) + Cardinality(base)
              /\ SubSeq(eff, 1, Len(cfg)) = cfg
              /\ Range(eff) = Range(cfg) \cup
                    {cfg[i] \o <<Slash, Star, Star>> : i \in base}
              /\ FilterAgrees(cfg)]_vars

\* Witness of C12: a call configured with `**/v` alone has filtered with
\* `**/v` and `**/v/**`: v/h.scss and s/v/k.scss were not emitted,
\* not-v/j.scss was.
C12_Witness ==
    /\ scans = 1
    /\ CallDone(calls[1])
    /\ settings.scannerExclude = <<PatBaseV, PatUnderV>>
    /\ disk = WsVendor
    /\ Len(calls[1].listOfPromises) = 1
    /\ calls[1].listOfPromises[1].entry.filepath = NmJ

\* C13 (skip rule over known): while a wave is outstanding, no candidate of
\* the wave is the target of an import that equals the document of a known
\* table, i.e. of a project table or of a table of an earlier wave.  The
\* candidates come in pairs, the target and then its partial sibling.
C13_SkipKnown ==
    \A c \in DOMAIN calls :
        calls[c].phase = "importing" =>
            \A i \in 1..Len(calls[c].wave) :
                i % 2 = 1 =>
                    \A k \in 1..Len(Known(calls[c])) :
                        Known(calls[c])[k].document # calls[c].wave[i].filepath

\* C14 (per-candidate failure containment): import resolution never rejects
\* the promise, whatever showErrors says: a rejected promise comes from the
\* 'error' event or from a project file.  A candidate whose stat failed, or
\* whose read or parse failed, gives no table; every candidate that is on
\* disk and can be read and parsed gives one, also when it is the partial
\* sibling of a target that does not exist; and the tables the resolver has
\* accumulated when it returns are those the promise is resolved with.
C14_FailureContainment ==
    \A c \in DOMAIN calls :
        LET call == calls[c]
        IN  /\ call.promise.state = "rejected" =>
                  /\ settings.showErrors
                  /\ call.streamErrored \/ ProjectFailure(call)
            /\ call.phase = "importing" =>
                  /\ ~ProjectFailure(call)
                  /\ \A i \in 1..Len(call.wave) :
                        call.wave[i].state = "done" =>
                           LET f == call.wave[i].filepath
                           IN  /\ f \notin DOMAIN disk
                                     => call.wave[i].value = <<>>
                               /\ (f \in DOMAIN disk /\ disk[f].fault = "none")
                                     => Len(call.wave[i].value) = 1
                               /\ (f \in DOMAIN disk /\ disk[f].fault # "none"
                                     /\ f \notin DOMAIN cache)
                                     => call.wave[i].value = <<>>
            /\ \A k \in 1..Len(call.accum) :
                  /\ call.accum[k].data.file \in DOMAIN disk
                  /\ disk[call.accum[k].data.file].fault = "none"
            /\ (call.phase = "done" /\ call.promise.state = "resolved"
                  /\ ~ProjectFailure(call))
                  => call.promise.value = call.projectSymbols \o call.accum

\* Witness of C14: with showErrors set, a call has resolved after the stats
\* of _x.scss and of y.scss failed and the partial _y.scss was extracted;
\* the table of _y.scss is in the result.
C14_Witness ==
    \E c \in DOMAIN calls :
        /\ settings.showErrors
        /\ CallDone(calls[c])
        /\ calls[c].promise.state = "resolved"
        /\ {PartialOf(NmX), NmY} \subseteq calls[c].statted
        /\ {PartialOf(NmX), NmY} \cap DOMAIN disk = {}
        /\ \E i \in 1..Len(calls[c].promise.value) :
              calls[c].promise.value[i].data.file = PartialOf(NmY)

\* C15 (wave barrier): while wave n of a call is outstanding, statFile is
\* called on no further path, and every settled stat, read, parse and cache
\* write of the call is that of a candidate of wave n; the stats of a wave
\* are issued in the step that issues the wave;
\* the next wave is issued, or the resolver returns, only in a step taken
\* when every candidate of wave n has settled; and every candidate of the
\* wave then issued is named by a static import of a table produced in
\* wave n (for the first wave, of a project table).
C15_WaveBarrier ==
    [][\A c \in DOMAIN calls :
          LET a == calls[c]
              b == calls'[c]
          IN  /\ (a.phase = "importing"
                    /\ (b.nesting # a.nesting \/ b.phase # "importing"))
                    => /\ \A i \in 1..Len(a.wave) : a.wave[i].state = "done"
                       /\ b.nesting = a.nesting + 1
                       /\ b.accum = a.accum \o Flatten(a.wave)
              /\ (b.phase = "importing"
                    /\ (a.phase # "importing" \/ b.nesting # a.nesting))
                    => LET from == IF a.phase = "importing"
                                   THEN Flatten(a.wave) ELSE b.projectSymbols
                       IN  /\ b.wave # <<>>
                           /\ b.statted = a.statted \cup
                                 {b.wave[i].filepath : i \in 1..Len(b.wave)}
                           /\ \A i \in 1..Len(b.wave) :
                                 /\ b.wave[i].state = "stat"
                                 /\ \E k \in 1..Len(from) :
                                       NamedByStaticImport(from[k],
                                                           b.wave[i].filepath)
              /\ (a.phase = "importing" /\ b.phase = "importing"
                    /\ b.nesting = a.nesting /\ b # a)
                    => /\ Len(b.wave) = Len(a.wave)
                       /\ \E i \in 1..Len(a.wave) :
                             /\ a.wave[i].state # "done"
                             /\ b.wave[i].filepath = a.wave[i].filepath
                             /\ \A j \in 1..Len(a.wave) :
                                   j # i => b.wave[j] = a.wave[j]
                             /\ b.statted = a.statted
                             /\ DOMAIN cache' \subseteq DOMAIN cache \cup
                                   {StripPartial(a.wave[i].filepath)}
                             /\ cache' # cache => a.wave[i].state = "read"]_vars

\* Witness of C15: the second wave of a call is outstanding, one of its
\* candidates has given a table and another one has not been stat-ed yet.
C15_Witness ==
    \E c \in DOMAIN calls :
        /\ calls[c].phase = "importing"
        /\ calls[c].nesting = 1
        /\ calls[c].accum # <<>>
        /\ \E i, j \in 1..Len(calls[c].wave) :
              /\ calls[c].wave[i].state = "done"
              /\ calls[c].wave[i].value # <<>>
              /\ calls[c].wave[j].state = "stat"

\* No two tables of a sequence have the same document.
DocumentsDistinct(tables) ==
    \A i, j \in 1..Len(tables) :
        i # j => tables[i].document # tables[j].document

\* C16 (each pass reports a path at most once): in the sequence a call
\* resolves with, no document occurs twice among the project tables and no
\* document occurs twice among the import-resolved tables.
C16_PathOncePerPass ==
    \A c \in DOMAIN calls :
        LET call == calls[c]
        IN  (call.phase = "done" /\ call.promise.state = "resolved"
                /\ ~ProjectFailure(call))
            => /\ call.promise.value = call.projectSymbols \o call.accum
               /\ DocumentsDistinct(call.projectSymbols)
               /\ DocumentsDistinct(call.accum)

\* The process has been terminated while the stream of some call was still
\* open: that stream never emits 'end'.
EndNeverEmitted ==
    /\ ~alive
    /\ \E d \in DOMAIN calls : calls[d].phase = "walking"

\* C17 (settlement): when the stream of every call emits 'end' and every
\* read and stat settles, every call's promise is eventually settled: from
\* some moment on every call made has a settled promise (a promise stays
\* settled, and calls are finitely many).  The one way a stream fails to
\* emit 'end' is the termination of the process while that stream is open.
\* A settled promise keeps its state and value;
\* and a call that met no 'error' event and no project failure is resolved
\* when its end handler has returned, also when import resolution stopped
\* at the depth bound.
C17_Settlement ==
    /\ <>[](\/ \A c \in DOMAIN calls : calls[c].promise.state # "pending"
            \/ EndNeverEmitted)
    /\ [](~alive => EndNeverEmitted)
    /\ [][\A c \in DOMAIN calls :
             calls[c].promise.state # "pending"
                => calls'[c].promise = calls[c].promise]_vars
    /\ [](\A c \in DOMAIN calls :
             (calls[c].phase = "done" /\ ~calls[c].streamErrored
                 /\ ~ProjectFailure(calls[c]))
             => calls[c].promise.state = "resolved")

\* Witness of C17: over the import chain a call has resolved with import
\* resolution stopped at the depth bound, the table of the last wave still
\* naming an import; and in the same run another call's stream has ended
\* too and its promise is settled.
C17_Witness ==
    /\ alive
    /\ IsChain
    /\ settings.scanImportedFilesDepth >= 1
    /\ DOMAIN calls = {1, 2}
    /\ \A c \in DOMAIN calls :
          /\ calls[c].phase = "done"
          /\ calls[c].promise.state = "resolved"
          /\ calls[c].nesting = settings.scanImportedFilesDepth
          /\ calls[c].accum # <<>>
          /\ calls[c].accum[Len(calls[c].accum)].imports # <<>>

\* C18 (cached table belongs to the file checked): every table a 'file'
\* handler or a candidate of a wave has obtained for an on-disk path, from
\* the cache or from the extractor, was parsed from the file at that path.
C18_CachedTableOfFileChecked ==
    \A c \in DOMAIN calls :
        /\ \A i \in 1..Len(calls[c].listOfPromises) :
              calls[c].listOfPromises[i].state = "fulfilled" =>
                  calls[c].listOfPromises[i].value[1].data.file =
                      calls[c].listOfPromises[i].entry.filepath
        /\ \A i \in 1..Len(calls[c].wave) :
              (calls[c].wave[i].state = "done"
                  /\ calls[c].wave[i].value # <<>>) =>
                  calls[c].wave[i].value[1].data.file =
                      calls[c].wave[i].filepath

\* C19 (settings are not changed by a scan): no step, of doScanner or of a
\* handler, changes settings.scannerExclude, so every call finds the list
\* with the contents and the length it had before the first call.
C19_SettingsUnchanged ==
    [][settings'.scannerExclude = settings.scannerExclude]_vars

\* C20 (no cache writes after settlement): once the promise of a call has
\* settled, no step of that call writes to the cache.  Stated over the calls
\* whose stream emits no 'error' event, where the promise is settled by the
\* end handler alone.
C20_NoWriteAfterSettlement ==
    [][\A c \in DOMAIN calls :
          (calls[c].promise.state # "pending" /\ ~calls[c].streamErrored
              /\ calls'[c] # calls[c])
          => cache' = cache]_vars

====
